---- MODULE Spec2Model ----
(***************************************************************************)
(* A model of the two utilities of the repository:                         *)
(*   scripts/qq-send-media-repro.mjs  the WebSocket repro script, with its *)
(*                                    request/response correlator          *)
(*   src/media/vision.ts              the image acquisition helper         *)
(* Strings the code takes apart (prefixes, slices, parseInt, base64, URL   *)
(* decoding) are sequences of one-character strings.                       *)
(***************************************************************************)
EXTENDS Integers, Sequences, FiniteSets, TLC

\* ------------------------------------------------------------------ bounds
\* Number of clock advances the environment may make while no timer is armed.
MaxTicks == 2
\* Milliseconds one clock advance adds.
TickMs == 15000
\* MAX_VISION_IMAGE_BYTES of vision.ts line 4 is 10 * 1024 * 1024; the model
\* scales it down to a few bytes.
MAX_VISION_IMAGE_BYTES == 2
\* Longest base64 body of a base64:// reference.
MaxB64Len == 5
\* Most chunks one response body is delivered in.
MaxReads == 3
\* frames the "message" handler discards in one run
MaxDropped == 1

\* ------------------------------------------------------- program constants
DEFAULT_TIMEOUT_MS == 25000
DEFAULT_GROUP == <<"8", "8", "3", "7", "6", "6", "0", "6", "9">>

\* ------------------------------------------------------------ string tools
\* s.startsWith(p)
StartsWith(s, p) == Len(s) >= Len(p) /\ SubSeq(s, 1, Len(p)) = p

\* s.slice(n)
Slice(s, n) == SubSeq(s, n + 1, Len(s))

\* the value a JavaScript string test treats as false: "" and undefined
Falsy == <<>>

DigitValue(c) ==
    CASE c = "0" -> 0 [] c = "1" -> 1 [] c = "2" -> 2 [] c = "3" -> 3
      [] c = "4" -> 4 [] c = "5" -> 5 [] c = "6" -> 6 [] c = "7" -> 7
      [] c = "8" -> 8 [] c = "9" -> 9 [] OTHER -> -1

IsDigit(c) == DigitValue(c) >= 0

\* a number: NaN, or the finite value n
NaN == [kind |-> "NaN", n |-> 0]
Num(v) == [kind |-> "number", n |-> v]
isFinite(x) == x.kind = "number"

\* the digits read so far as a number
RECURSIVE DigitsValue(_, _, _)
DigitsValue(s, i, acc) ==
    IF i > Len(s) \/ ~IsDigit(s[i]) THEN acc
    ELSE DigitsValue(s, i + 1, acc * 10 + DigitValue(s[i]))

\* Number.parseInt(s, 10): an optional sign, then the longest run of digits;
\* NaN when there is no digit.
parseInt(s) ==
    LET neg == Len(s) >= 1 /\ s[1] = "-"
        body == IF Len(s) >= 1 /\ s[1] \in {"-", "+"} THEN Slice(s, 1) ELSE s
    IN IF Len(body) = 0 \/ ~IsDigit(body[1]) THEN NaN
       ELSE IF neg THEN Num(0 - DigitsValue(body, 1, 0))
       ELSE Num(DigitsValue(body, 1, 0))

\* ------------------------------------------------- repro script: arguments
DASHES == <<"-", "-">>
TRUE_STR == <<"t", "r", "u", "e">>

K_ws == <<"w", "s">>
K_group == <<"g", "r", "o", "u", "p">>
K_mp4 == <<"m", "p", "4">>
K_txt == <<"t", "x", "t">>

Flag(key) == DASHES \o key

V_url == <<"w", "s", ":", "h">>
V_mp4 == <<"/", "m">>
V_txt == <<"/", "t">>

Put(args, key, value) ==
    [k \in DOMAIN args \cup {key} |-> IF k = key THEN value ELSE args[k]]

\* args.key: undefined when the key was never set
Get(args, key) == IF key \in DOMAIN args THEN args[key] ELSE Falsy

\* the loop of parseArgs; argv[i] of the code is argv[i + 1] here
RECURSIVE parseArgsFrom(_, _, _)
parseArgsFrom(argv, i, args) ==
    IF i >= Len(argv) THEN args
    ELSE LET token == argv[i + 1] IN
         IF ~StartsWith(token, DASHES) THEN parseArgsFrom(argv, i + 1, args)
         ELSE LET key == Slice(token, 2)
                  next == IF i + 1 < Len(argv) THEN argv[i + 2] ELSE Falsy
              IN IF next = Falsy \/ StartsWith(next, DASHES)
                 THEN parseArgsFrom(argv, i + 1, Put(args, key, TRUE_STR))
                 ELSE parseArgsFrom(argv, i + 2, Put(args, key, next))

parseArgs(argv) == parseArgsFrom(argv, 2, [k \in {} |-> Falsy])

\* a || b on strings
OrElse(a, b) == IF a # Falsy THEN a ELSE b

\* the command lines and environments the model starts the script with
ArgvSet ==
    { << <<"n">>, <<"s">> >> \o w \o g \o m \o t :
        w \in { <<>>, <<Flag(K_ws), V_url>>, <<Flag(K_ws)>> },
        g \in { <<>>, <<Flag(K_group), <<"1", "a">> >>,
                <<Flag(K_group), <<"a", "1">> >>, <<Flag(K_group)>> },
        m \in { <<>>, <<Flag(K_mp4), V_mp4>>, <<Flag(K_mp4)>> },
        t \in { <<>>, <<Flag(K_txt), V_txt>> } }

EnvSet == { Falsy, V_url }

FsSet == SUBSET { V_mp4, V_txt }

\* new WebSocket(url) throws a SyntaxError for a string that is no ws: URL
IsWsUrl(u) == StartsWith(u, <<"w", "s", ":">>)

\* ------------------------------------------------ repro script: the calls
\* main's six calls in program order
Steps ==
    << [action |-> "send_group_msg", body |-> "text_start"],
       [action |-> "send_group_msg", body |-> "video_mp4"],
       [action |-> "send_group_msg", body |-> "file_txt"],
       [action |-> "upload_group_file", body |-> "mp4"],
       [action |-> "upload_group_file", body |-> "txt"],
       [action |-> "send_group_msg", body |-> "text_done"] >>

\* an echo token `repro_${Date.now()}_${seq}` is the pair <<time, seq>>
NoEcho == <<>>
BogusEcho == <<0, 0, 0>>
NoResult == [kind |-> "none"]

VARIABLES
    r_pc,        \* main's position
    cfg,         \* wsUrl, group, mp4, txt after parseArgs and the defaults
    fsFiles,     \* the regular files of the file system
    ws_state,    \* "none", "connecting", "open", "closing", "closed"
    closeCalls,  \* how many times ws.close() was called
    exitCode,    \* -1 while the process runs
    failure,     \* the error main was rejected with
    clock,       \* Date.now()
    ticks,       \* clock advances made so far
    seq,         \* the counter of call
    step,        \* index in Steps of the last call main issued
    calls,       \* one record per promise created by call
    pending,     \* the Map of call: entries [echo, call], call the index in
                 \* calls of the promise the stored resolver settles
    sent,        \* what ws.send put on the wire
    dropped,     \* frames the "message" handler returned from without
                 \* calling a resolver (lines 75 and 78)
    vis,         \* the running call of the vision helper
    tmpFiles,    \* the files of /tmp: records [path, bytes]
    writers      \* concurrent calls that have reached writeTempImageFile

\* the variables of the repro script alone
ronly == <<r_pc, cfg, fsFiles, ws_state, closeCalls, exitCode, failure, seq,
           step, calls, pending, sent, dropped>>

\* the variables of the vision helper alone
vonly == <<vis, tmpFiles>>

vars == <<ronly, vonly, writers, clock, ticks>>

NoCfg == [wsUrl |-> Falsy, group |-> Falsy, mp4 |-> Falsy, txt |-> Falsy]
NoFailure == [kind |-> "none"]

InitRepro ==
    /\ r_pc = "init"
    /\ cfg = NoCfg
    /\ fsFiles = {}
    /\ ws_state = "none"
    /\ closeCalls = 0
    /\ exitCode = -1
    /\ failure = NoFailure
    /\ clock = 0
    /\ ticks = 0
    /\ seq = 0
    /\ step = 0
    /\ calls = <<>>
    /\ pending = {}
    /\ sent = <<>>
    /\ dropped = 0

\* process.exit(code): nothing of the process runs afterwards
Exit(code) ==
    /\ r_pc' = "exited"
    /\ exitCode' = code

\* main, lines 41-52: parse, default, and the usage check
Start(argv, env, fs) ==
    /\ r_pc = "init"
    /\ LET args == parseArgs(argv)
           c == [wsUrl |-> OrElse(Get(args, K_ws), env),
                 group |-> OrElse(Get(args, K_group), DEFAULT_GROUP),
                 mp4 |-> Get(args, K_mp4),
                 txt |-> Get(args, K_txt)]
       IN /\ cfg' = c
          /\ fsFiles' = fs
          /\ IF c.wsUrl = Falsy \/ c.mp4 = Falsy \/ c.txt = Falsy
             THEN Exit(2)
             ELSE r_pc' = "checkMp4" /\ UNCHANGED exitCode
    /\ UNCHANGED <<ws_state, closeCalls, failure, clock, ticks, seq, step,
                   calls, pending, sent>>
    /\ UNCHANGED <<vonly, writers, dropped>>

\* existsFile(p): stat succeeded and names a regular file
existsFile(p) == p \in fsFiles

\* main, lines 54-57
CheckMp4 ==
    /\ r_pc = "checkMp4"
    /\ IF ~existsFile(cfg.mp4) THEN Exit(2)
       ELSE r_pc' = "checkTxt" /\ UNCHANGED exitCode
    /\ UNCHANGED <<cfg, fsFiles, ws_state, closeCalls, failure, clock, ticks,
                   seq, step, calls, pending, sent>>
    /\ UNCHANGED <<vonly, writers, dropped>>

\* main, lines 58-61
CheckTxt ==
    /\ r_pc = "checkTxt"
    /\ IF ~existsFile(cfg.txt) THEN Exit(2)
       ELSE r_pc' = "connect" /\ UNCHANGED exitCode
    /\ UNCHANGED <<cfg, fsFiles, ws_state, closeCalls, failure, clock, ticks,
                   seq, step, calls, pending, sent>>
    /\ UNCHANGED <<vonly, writers, dropped>>

\* main().catch: log and process.exit(1)
Uncaught(err) ==
    /\ failure' = err
    /\ Exit(1)

\* main, lines 63-88: new WebSocket, the handlers, and the wait for "open"
Connect ==
    /\ r_pc = "connect"
    /\ IF IsWsUrl(cfg.wsUrl)
       THEN /\ ws_state' = "connecting"
            /\ r_pc' = "awaitOpen"
            /\ UNCHANGED <<exitCode, failure>>
       ELSE /\ Uncaught([kind |-> "SyntaxError"])
            /\ UNCHANGED ws_state
    /\ UNCHANGED <<cfg, fsFiles, closeCalls, clock, ticks, seq, step, calls,
                   pending, sent>>
    /\ UNCHANGED <<vonly, writers, dropped>>

\* ws "open": the promise of lines 85-88 resolves
OnOpen ==
    /\ r_pc = "awaitOpen"
    /\ ws_state = "connecting"
    /\ ws_state' = "open"
    /\ r_pc' = "opened"
    /\ UNCHANGED <<cfg, fsFiles, closeCalls, exitCode, failure, clock, ticks,
                   seq, step, calls, pending, sent>>
    /\ UNCHANGED <<vonly, writers, dropped>>

\* ws "error" before "open": the promise of lines 85-88 rejects
OnError ==
    /\ r_pc = "awaitOpen"
    /\ ws_state = "connecting"
    /\ ws_state' = "closed"
    /\ Uncaught([kind |-> "connect"])
    /\ UNCHANGED <<cfg, fsFiles, closeCalls, clock, ticks, seq, step, calls,
                   pending, sent>>
    /\ UNCHANGED <<vonly, writers, dropped>>

\* a pending.has that finds nothing
PendingHas_Never(pd, echo) == FALSE

\* pending.has / pending.get / pending.delete / pending.set
PendingHas(pd, echo) == \E e \in pd : e.echo = echo
PendingGet(pd, echo) == (CHOOSE e \in pd : e.echo = echo).call
\* pending.delete that removes nothing
PendingDelete_Leak(pd, echo) == pd

PendingDelete(pd, echo) == { e \in pd : e.echo # echo }
PendingSet(pd, echo, k) == PendingDelete(pd, echo) \cup {[echo |-> echo, call |-> k]}

\* the error of line 99
TimeoutError(action, echo) ==
    [kind |-> "timeout", action |-> action, echo |-> echo]

\* a failure path without the finally block: the socket is left open
MainFail_NoClose(cs, pd, err) ==
    /\ calls' = cs
    /\ pending' = pd
    /\ UNCHANGED <<ws_state, closeCalls>>
    /\ Uncaught(err)

\* main's finally (ws.close()) and main().catch after a call was rejected;
\* cs and pd are calls and pending as the rejecting handler left them
MainFail(cs, pd, err) ==
    /\ calls' = cs
    /\ pending' = pd
    /\ ws_state' = "closing"
    /\ closeCalls' = closeCalls + 1
    /\ Uncaught(err)

\* call(action, params) for Steps[k], lines 90-107; sendOk is whether ws.send
\* returned (it throws when the library refuses the frame)
IssueCall(cs, pd, k, sendOk) ==
    LET echo == <<clock, seq>>
        req == [action |-> Steps[k].action,
                params |-> [group_id |-> parseInt(cfg.group).n,
                            body |-> Steps[k].body],
                echo |-> echo]
    IN /\ seq' = seq + 1
       /\ step' = k
       /\ IF sendOk
          THEN /\ sent' = Append(sent, req)
               /\ calls' = Append(cs, [action |-> req.action,
                                       echo |-> echo,
                                       deadline |-> clock + DEFAULT_TIMEOUT_MS,
                                       timer |-> "armed",
                                       status |-> "SENT",
                                       result |-> NoResult])
               /\ pending' = PendingSet(pd, echo, Len(cs) + 1)
               /\ r_pc' = "awaitCall"
               /\ UNCHANGED <<ws_state, closeCalls, exitCode, failure>>
          ELSE /\ sent' = sent
               /\ MainFail(cs, pd, [kind |-> "send", action |-> req.action,
                                    echo |-> echo])

\* main after the sixth call: finally ws.close(), and main returns
MainFinish(cs, pd) ==
    /\ calls' = cs
    /\ pending' = pd
    /\ ws_state' = "closing"
    /\ closeCalls' = closeCalls + 1
    /\ r_pc' = "returned"
    /\ UNCHANGED <<exitCode, failure, seq, step, sent>>

\* a main that issues the resolved step once more before it moves on
MainResume_Retry(cs, pd) ==
    IF step < Len(Steps)
    THEN \E sendOk \in BOOLEAN :
            IssueCall(cs, pd, IF Len(sent) = step THEN step ELSE step + 1, sendOk)
    ELSE MainFinish(cs, pd)

\* a main that leaves out the step after the resolved one
MainResume_Skip(cs, pd) ==
    IF step < Len(Steps)
    THEN \E sendOk \in BOOLEAN :
            IssueCall(cs, pd, IF step + 2 <= Len(Steps) THEN step + 2
                              ELSE step + 1, sendOk)
    ELSE MainFinish(cs, pd)

\* main resumed by the resolution of the call it awaits
MainResume(cs, pd) ==
    IF step < Len(Steps)
    THEN \E sendOk \in BOOLEAN : IssueCall(cs, pd, step + 1, sendOk)
    ELSE MainFinish(cs, pd)

\* main, lines 109-118, resumed by "open": the group check and the first call
AfterOpen ==
    /\ r_pc = "opened"
    /\ IF ~isFinite(parseInt(cfg.group))
       THEN /\ Uncaught([kind |-> "invalid_group"])
            /\ UNCHANGED <<ws_state, closeCalls, seq, step, calls, pending, sent>>
       ELSE \E sendOk \in BOOLEAN : IssueCall(calls, pending, 1, sendOk)
    /\ UNCHANGED <<cfg, fsFiles, clock, ticks>>
    /\ UNCHANGED <<vonly, writers, dropped>>

\* a resolver that resolves and leaves the timer armed
Resolver_NoClear(cs, k, resp) ==
    [cs EXCEPT ![k] =
        [@ EXCEPT !.status = IF cs[k].status = "SENT" THEN "RESOLVED" ELSE @,
                  !.result = IF cs[k].status = "SENT" THEN resp ELSE @]]

\* the resolver stored by line 102: clearTimeout(timer); resolve(resp)
Resolver(cs, k, resp) ==
    [cs EXCEPT ![k] =
        [@ EXCEPT !.timer = IF @ = "armed" THEN "cleared" ELSE @,
                  !.status = IF cs[k].status = "SENT" THEN "RESOLVED" ELSE @,
                  !.result = IF cs[k].status = "SENT" THEN resp ELSE @]]

\* a timer callback that rejects nothing
TimerBody_Lost(cs, k) == [cs EXCEPT ![k] = [@ EXCEPT !.timer = "fired"]]

\* the timer callback of lines 97-100, up to reject
TimerBody(cs, k) ==
    [cs EXCEPT ![k] =
        [@ EXCEPT !.timer = "fired",
                  !.status = IF cs[k].status = "SENT" THEN "TIMED_OUT" ELSE @,
                  !.result = IF cs[k].status = "SENT"
                             THEN TimeoutError(cs[k].action, cs[k].echo) ELSE @]]

\* whether main is suspended on the promise of calls[k]
Awaited(k) == r_pc = "awaitCall" /\ k = Len(calls)

\* what the server may put on the socket
Messages ==
    {[kind |-> "nonjson", echo |-> NoEcho, status |-> "none"]}
    \cup [kind : {"json"},
          echo : {NoEcho, BogusEcho} \cup {sent[i].echo : i \in DOMAIN sent},
          status : {"ok"}]

\* ws.on("message") for the frame raw, lines 69-83, and main's continuation
\* when it resolves the awaited call; frames are handled one at a time, in
\* arrival order
OnMessage(raw) ==
    /\ r_pc \in {"awaitCall", "returned"}
    /\ ws_state \in {"open", "closing"}
    /\ IF raw.kind = "json" /\ raw.echo # NoEcho /\ PendingHas(pending, raw.echo)
       THEN /\ UNCHANGED dropped
            /\ LET k == PendingGet(pending, raw.echo)
                   pd == PendingDelete(pending, raw.echo)
                   cs == Resolver(calls, k, raw)
               IN IF Awaited(k) /\ calls[k].status = "SENT"
                  THEN MainResume(cs, pd)
                  ELSE /\ calls' = cs
                       /\ pending' = pd
                       /\ UNCHANGED <<r_pc, ws_state, closeCalls, exitCode,
                                      failure, seq, step, sent>>
       ELSE /\ dropped < MaxDropped
            /\ dropped' = dropped + 1
            /\ UNCHANGED <<r_pc, ws_state, closeCalls, exitCode, failure, seq,
                           step, calls, pending, sent>>
    /\ UNCHANGED <<cfg, fsFiles, clock, ticks>>
    /\ UNCHANGED <<vonly, writers>>

\* the timer of call k fires, lines 97-100, and main's failure path
OnTimer(k) ==
    /\ r_pc \in {"awaitCall", "returned"}
    /\ calls[k].timer = "armed"
    /\ clock >= calls[k].deadline
    /\ LET pd == PendingDelete(pending, calls[k].echo)
           cs == TimerBody(calls, k)
       IN IF Awaited(k) /\ calls[k].status = "SENT"
          THEN MainFail(cs, pd, cs[k].result)
          ELSE /\ calls' = cs
               /\ pending' = pd
               /\ UNCHANGED <<r_pc, ws_state, closeCalls, exitCode, failure>>
    /\ UNCHANGED <<cfg, fsFiles, clock, ticks, seq, step, sent>>
    /\ UNCHANGED <<vonly, writers, dropped>>

\* the close handshake ends; nothing keeps the event loop alive
SocketClosed ==
    /\ r_pc = "returned"
    /\ ws_state = "closing"
    /\ ws_state' = "closed"
    /\ Exit(0)
    /\ UNCHANGED <<cfg, fsFiles, closeCalls, failure, clock, ticks, seq, step,
                   calls, pending, sent>>
    /\ UNCHANGED <<vonly, writers, dropped>>

ReproTimerArmed == \E k \in DOMAIN calls :
    calls[k].timer = "armed" /\ calls[k].deadline > clock

\* time passes
TickRepro ==
    /\ r_pc \in {"awaitOpen", "awaitCall", "returned"}
    /\ ticks < MaxTicks \/ ReproTimerArmed
    /\ clock' = clock + TickMs
    /\ ticks' = ticks + 1
    /\ UNCHANGED <<r_pc, cfg, fsFiles, ws_state, closeCalls, exitCode, failure,
                   seq, step, calls, pending, sent>>
    /\ UNCHANGED <<vonly, writers, dropped>>

NextRepro ==
    \/ /\ r_pc = "init"
       /\ \E argv \in ArgvSet, env \in EnvSet, fs \in FsSet : Start(argv, env, fs)
    \/ CheckMp4
    \/ CheckTxt
    \/ Connect
    \/ OnOpen
    \/ OnError
    \/ AfterOpen
    \/ \E raw \in Messages : OnMessage(raw)
    \/ \E k \in DOMAIN calls : OnTimer(k)
    \/ SocketClosed
    \/ TickRepro

\* ------------------------------------------------ vision helper: strings
MAX_VISION_IMAGE_COUNT == 3
VISION_IMAGE_TIMEOUT_MS == 15000
QQ_TMP_PREFIX == <<"q", "q", "_", "v", "i", "s", "i", "o", "n", "_">>

P_base64 == <<"b", "a", "s", "e", "6", "4", ":", "/", "/">>
P_file == <<"f", "i", "l", "e", ":", "/", "/">>
P_slash == <<"/">>
P_http == <<"h", "t", "t", "p", ":", "/", "/">>
P_https == <<"h", "t", "t", "p", "s", ":", "/", "/">>

E_jpg == <<".", "j", "p", "g">>
E_jpeg == <<".", "j", "p", "e", "g">>
E_png == <<".", "p", "n", "g">>
E_gif == <<".", "g", "i", "f">>
E_webp == <<".", "w", "e", "b", "p">>
E_bmp == <<".", "b", "m", "p">>

\* String(n) of a number n >= 0
RECURSIVE Digits(_)
Digits(n) ==
    LET d == <<"0", "1", "2", "3", "4", "5", "6", "7", "8", "9">>[(n % 10) + 1]
    IN IF n < 10 THEN <<d>> ELSE Digits(n \div 10) \o <<d>>

\* Number(s) of a non-empty header value: the whole string must be a number
Number(s) ==
    LET neg == s[1] = "-"
        body == IF neg THEN Slice(s, 1) ELSE s
    IN IF Len(body) = 0 \/ \E i \in DOMAIN body : ~IsDigit(body[i]) THEN NaN
       ELSE IF neg THEN Num(0 - DigitsValue(body, 1, 0))
       ELSE Num(DigitsValue(body, 1, 0))

\* c.toLowerCase() on the letters the model's strings hold
LowerChar(c) ==
    CASE c = "G" -> "g" [] c = "I" -> "i" [] c = "F" -> "f" [] c = "P" -> "p"
      [] c = "N" -> "n" [] OTHER -> c

toLowerCase(s) == [i \in DOMAIN s |-> LowerChar(s[i])]

\* index of the first c in s, 0 when there is none
IndexOf(s, c) ==
    IF \E i \in DOMAIN s : s[i] = c
    THEN CHOOSE i \in DOMAIN s : s[i] = c /\ \A j \in 1..(i - 1) : s[j] # c
    ELSE 0

\* index of the last c in s, 0 when there is none
LastIndexOf(s, c) ==
    IF \E i \in DOMAIN s : s[i] = c
    THEN CHOOSE i \in DOMAIN s : s[i] = c /\ \A j \in (i + 1)..Len(s) : s[j] # c
    ELSE 0

\* s.trim()
RECURSIVE trim(_)
trim(s) ==
    IF Len(s) > 0 /\ s[1] = " " THEN trim(Tail(s))
    ELSE IF Len(s) > 0 /\ s[Len(s)] = " " THEN trim(SubSeq(s, 1, Len(s) - 1))
    ELSE s

\* "no value": null, and the return value null
Null == [kind |-> "null"]

\* extFromContentType, lines 10-19; the result is Falsy for null
extFromContentType(contentType) ==
    IF contentType = Falsy THEN Falsy
    ELSE LET semi == IndexOf(contentType, ";")
             first == IF semi = 0 THEN contentType
                      ELSE SubSeq(contentType, 1, semi - 1)
             mime == toLowerCase(trim(first))
         IN CASE mime = <<"i", "m", "a", "g", "e", "/", "j", "p", "e", "g">> -> E_jpg
              [] mime = <<"i", "m", "a", "g", "e", "/", "p", "n", "g">> -> E_png
              [] mime = <<"i", "m", "a", "g", "e", "/", "g", "i", "f">> -> E_gif
              [] mime = <<"i", "m", "a", "g", "e", "/", "w", "e", "b", "p">> -> E_webp
              [] mime = <<"i", "m", "a", "g", "e", "/", "b", "m", "p">> -> E_bmp
              [] OTHER -> Falsy

\* new URL(u).pathname of an http(s) URL: what follows the authority, up to
\* the query or the fragment
UrlPathname(u) ==
    LET rest == Slice(u, IndexOf(u, ":") + 2)
        slash == IndexOf(rest, "/")
        fromPath == IF slash = 0 THEN <<"/">> ELSE Slice(rest, slash - 1)
        q == IndexOf(fromPath, "?")
        h == IndexOf(fromPath, "#")
        cut == IF q = 0 THEN h ELSE IF h = 0 THEN q ELSE IF q < h THEN q ELSE h
    IN IF cut = 0 THEN fromPath ELSE SubSeq(fromPath, 1, cut - 1)

\* path.extname(p): from the last "." of the last segment, "" when there is
\* none or the segment starts with it
extname(p) ==
    LET base == Slice(p, LastIndexOf(p, "/"))
        dot == LastIndexOf(base, ".")
    IN IF dot <= 1 THEN Falsy ELSE Slice(base, dot - 1)

\* extFromUrl, lines 21-32; the result is Falsy for null
extFromUrl(rawUrl) ==
    LET ext == toLowerCase(extname(UrlPathname(rawUrl)))
    IN IF ext \in {E_jpg, E_jpeg, E_png, E_gif, E_webp, E_bmp}
       THEN IF ext = E_jpeg THEN E_jpg ELSE ext
       ELSE Falsy

\* parseContentLength, lines 34-39, of the content-length header's value
parseContentLength(value) ==
    IF value = Falsy THEN Null
    ELSE LET parsed == Number(value)
         IN IF isFinite(parsed) /\ parsed.n >= 0 THEN parsed ELSE Null

\* a length check that never fires
TooLong_Never(len, max) == FALSE

\* len !== null && len > MAX_VISION_IMAGE_BYTES
TooLong(len, max) == len.kind = "number" /\ len.n > max

\* ---------------------------------------------------------------- base64
B64 == <<"A", "B", "C", "D", "E", "F", "G", "H", "I", "J", "K", "L", "M",
         "N", "O", "P", "Q", "R", "S", "T", "U", "V", "W", "X", "Y", "Z",
         "a", "b", "c", "d", "e", "f", "g", "h", "i", "j", "k", "l", "m",
         "n", "o", "p", "q", "r", "s", "t", "u", "v", "w", "x", "y", "z",
         "0", "1", "2", "3", "4", "5", "6", "7", "8", "9", "+", "/">>

\* the value of a base64 character, -1 for any other character
unbase64(c) ==
    IF \E i \in DOMAIN B64 : B64[i] = c
    THEN (CHOOSE i \in DOMAIN B64 : B64[i] = c) - 1
    ELSE -1

\* the sextets Buffer.from(s, "base64") reads: characters outside the
\* alphabet are skipped and "=" ends the input
RECURSIVE Sextets(_)
Sextets(s) ==
    IF s = <<>> \/ Head(s) = "=" THEN <<>>
    ELSE IF unbase64(Head(s)) < 0 THEN Sextets(Tail(s))
    ELSE <<unbase64(Head(s))>> \o Sextets(Tail(s))

\* the bytes of a run of sextets: three per full group of four, and one or
\* two for a last group of two or three
RECURSIVE SextetBytes(_)
SextetBytes(x) ==
    IF Len(x) < 2 THEN <<>>
    ELSE LET b1 == x[1] * 4 + (x[2] \div 16) IN
         IF Len(x) = 2 THEN <<b1>>
         ELSE LET b2 == (x[2] % 16) * 16 + (x[3] \div 4) IN
              IF Len(x) = 3 THEN <<b1, b2>>
              ELSE <<b1, b2, (x[3] % 4) * 64 + x[4]>> \o SextetBytes(Slice(x, 4))

\* Buffer.from(encoded, "base64")
BufferFromBase64(encoded) == SextetBytes(Sextets(encoded))

\* an encoder that loses the bytes
toBase64_Empty(b) == <<>>

\* buffer.toString("base64")
RECURSIVE toBase64(_)
toBase64(b) ==
    IF b = <<>> THEN <<>>
    ELSE IF Len(b) = 1
    THEN <<B64[(b[1] \div 4) + 1], B64[(b[1] % 4) * 16 + 1], "=", "=">>
    ELSE IF Len(b) = 2
    THEN <<B64[(b[1] \div 4) + 1], B64[(b[1] % 4) * 16 + (b[2] \div 16) + 1],
           B64[(b[2] % 16) * 4 + 1], "=">>
    ELSE <<B64[(b[1] \div 4) + 1], B64[(b[1] % 4) * 16 + (b[2] \div 16) + 1],
           B64[(b[2] % 16) * 4 + (b[3] \div 64) + 1], B64[(b[3] % 64) + 1]>>
         \o toBase64(Slice(b, 3))

\* ------------------------------------------------------ decodeURIComponent
HexValue(c) ==
    CASE IsDigit(c) -> DigitValue(c)
      [] c \in {"A", "a"} -> 10 [] c \in {"B", "b"} -> 11
      [] c \in {"C", "c"} -> 12 [] c \in {"D", "d"} -> 13
      [] c \in {"E", "e"} -> 14 [] c \in {"F", "f"} -> 15
      [] OTHER -> -1

\* the octet of the escape at s[i..i+2], -1 when s holds no escape there
EscapeAt(s, i) ==
    IF i + 2 <= Len(s) /\ s[i] = "%" /\ HexValue(s[i + 1]) >= 0
       /\ HexValue(s[i + 2]) >= 0
    THEN HexValue(s[i + 1]) * 16 + HexValue(s[i + 2])
    ELSE -1

\* the character of an ASCII octet (of those the model's paths can escape)
AsciiChar(v) ==
    CASE v = 47 -> "/" [] v = 37 -> "%" [] v = 32 -> " " [] v = 97 -> "a"
      [] OTHER -> "?"

\* how many continuation octets the UTF-8 lead octet v announces, -1 when v
\* is no lead octet
Continuations(v) ==
    CASE v >= 194 /\ v <= 223 -> 1
      [] v >= 224 /\ v <= 239 -> 2
      [] v >= 240 /\ v <= 244 -> 3
      [] OTHER -> -1

\* the outcome of a decoding: a string, or the URIError thrown
Decoded(str) == [ok |-> TRUE, str |-> str]
URIError == [ok |-> FALSE, str |-> <<>>]

\* decodeURIComponent(s) from position i on: URIError on a malformed escape
\* or a malformed UTF-8 sequence
RECURSIVE decodeFrom(_, _)
decodeFrom(s, i) ==
    IF i > Len(s) THEN Decoded(<<>>)
    ELSE IF s[i] # "%"
    THEN LET rest == decodeFrom(s, i + 1)
         IN IF rest.ok THEN Decoded(<<s[i]>> \o rest.str) ELSE URIError
    ELSE LET v == EscapeAt(s, i)
             n == IF v < 128 THEN 0 ELSE Continuations(v)
         IN IF v < 0 \/ n < 0 THEN URIError
            ELSE IF \E j \in 1..n :
                       LET w == EscapeAt(s, i + 3 * j) IN w < 128 \/ w > 191
            THEN URIError
            ELSE LET rest == decodeFrom(s, i + 3 * (n + 1))
                     c == IF n = 0 THEN AsciiChar(v) ELSE "?"
                 IN IF rest.ok THEN Decoded(<<c>> \o rest.str) ELSE URIError

decodeURIComponent(s) == decodeFrom(s, 1)

\* --------------------------------------------------- vision helper: state
\* the outcome of a call still running, and the values a call returns
Pending == [kind |-> "pending"]
PathValue(p) == [kind |-> "path", str |-> p]
PayloadValue(p) == [kind |-> "payload", str |-> p]
Threw(err) == [kind |-> "threw", error |-> err]

\* what a fetch settled with: kind is "none" before it settles, "response",
\* "rejected" (a network error) or "aborted" (by its controller)
Response(ok, length, ctype, hasBody) ==
    [kind |-> "response", ok |-> ok, length |-> length, ctype |-> ctype,
     hasBody |-> hasBody]
NoResponse == [kind |-> "none", ok |-> FALSE, length |-> Falsy, ctype |-> Falsy,
               hasBody |-> FALSE]
Rejected == [NoResponse EXCEPT !.kind = "rejected"]
Aborted == [NoResponse EXCEPT !.kind = "aborted"]

\* what fs.stat settled with
StatOf(isFile, size) == [kind |-> "stat", isFile |-> isFile, size |-> size]
NoStat == [kind |-> "none", isFile |-> FALSE, size |-> 0]
StatFailed == [NoStat EXCEPT !.kind = "null"]

IdleVis ==
    [op |-> "none", pc |-> "idle", rawUrl |-> <<>>, messageId |-> <<>>,
     index |-> 0, outcome |-> Pending,
     headTimer |-> "unset", headDeadline |-> 0, headAborted |-> FALSE,
     getTimer |-> "unset", getDeadline |-> 0, getAborted |-> FALSE,
     requests |-> <<>>, headRes |-> NoResponse, getRes |-> NoResponse,
     statCalls |-> 0, statRes |-> NoStat, path |-> <<>>, buf |-> <<>>,
     received |-> 0, chunks |-> <<>>, locked |-> FALSE,
     writes |-> 0, warnings |-> 0, caught |-> "none"]

\* how many calls run side by side
Writers == {1, 2}

InitVision ==
    /\ vis = IdleVis
    /\ tmpFiles = {}
    /\ writers = [w \in Writers |-> IdleVis]

\* return value
Return(s, value) == [s EXCEPT !.pc = "done", !.outcome = value]

\* a finally block that leaves the HEAD timer running
ClearHeadTimer_Skip(s) == s

\* clearTimeout(headTimeout), line 115
ClearHeadTimer(s) ==
    [s EXCEPT !.headTimer = IF @ = "armed" THEN "cleared" ELSE @]

\* clearTimeout(timeout), lines 138 and 171
ClearGetTimer(s) ==
    [s EXCEPT !.getTimer = IF @ = "armed" THEN "cleared" ELSE @]

\* a function without its catch: the exception reaches the caller
Catch_Propagate(s, err) ==
    [s EXCEPT !.pc = "done", !.caught = err, !.outcome = Threw(err)]

\* the catch of materializeImageForVision, lines 140-143
CatchMaterialize(s, err) ==
    Return([s EXCEPT !.warnings = @ + 1, !.caught = err], Null)

\* the catch of downloadImageUrlAsBase64, lines 167-169
CatchDownload(s, err) ==
    Return([s EXCEPT !.warnings = @ + 1, !.caught = err], Null)

\* a name without the index
TempPath_NoIndex(messageId, now, index, extHint) ==
    <<"/", "t", "m", "p", "/">> \o QQ_TMP_PREFIX \o messageId \o <<"_">>
    \o Digits(now) \o extHint

\* the name and path of writeTempImageFile, lines 69-71
TempPath(messageId, now, index, extHint) ==
    LET safeExt == IF StartsWith(extHint, <<".">>) THEN extHint ELSE E_jpg
        name == QQ_TMP_PREFIX \o messageId \o <<"_">> \o Digits(now) \o <<"_">>
                \o Digits(index) \o safeExt
    IN <<"/", "t", "m", "p", "/">> \o name

\* a write that drops the last byte
BeginWrite_Truncated(s, buffer, extHint, now) ==
    [s EXCEPT !.path = TempPath(s.messageId, now, s.index, extHint),
              !.buf = SubSeq(buffer, 1, Len(buffer) - 1),
              !.pc = "write"]

\* writeTempImageFile up to its await of fs.writeFile, lines 68-72
BeginWrite(s, buffer, extHint, now) ==
    [s EXCEPT !.path = TempPath(s.messageId, now, s.index, extHint),
              !.buf = buffer,
              !.pc = "write"]

\* fs.stat(p) is issued, lines 91 and 97
BeginStat(s, p) ==
    [s EXCEPT !.path = p, !.statCalls = @ + 1, !.pc = "stat"]

\* lines 104-107: the HEAD controller, its timer, and the HEAD request
BeginHead(s, now) ==
    [s EXCEPT !.headTimer = "armed",
              !.headDeadline = now + VISION_IMAGE_TIMEOUT_MS,
              !.requests = Append(@, "HEAD"),
              !.pc = "head"]

\* lines 118-126 and 147-156: the GET controller, its timer, and the GET
BeginGet(s, now) ==
    [s EXCEPT !.getTimer = "armed",
              !.getDeadline = now + VISION_IMAGE_TIMEOUT_MS,
              !.requests = Append(@, "GET"),
              !.pc = "get"]

\* a return inside the GET try block: the finally clears the timer
GetReturn(s, value) == Return(ClearGetTimer(s), value)

\* an exception inside the GET try block: finally and catch, in the order of
\* the function that runs
GetThrow(s, err) ==
    IF s.op = "materialize"
    THEN CatchMaterialize(ClearGetTimer(s), err)
    ELSE ClearGetTimer(CatchDownload(s, err))

\* a scheme test that lets every reference through
IsHttpRef_Any(rawUrl) == TRUE

\* the test of line 102
IsHttpRef(rawUrl) == StartsWith(rawUrl, P_http) \/ StartsWith(rawUrl, P_https)

\* materializeImageForVision from its entry to its first await, lines 76-107
MaterializeEntry(s, now) ==
    IF s.rawUrl = Falsy THEN Return(s, Null)
    ELSE IF StartsWith(s.rawUrl, P_base64)
    THEN LET encoded == Slice(s.rawUrl, Len(P_base64))
             buffer == BufferFromBase64(encoded)
         IN IF encoded = Falsy THEN Return(s, Null)
            ELSE IF Len(buffer) = 0 \/ Len(buffer) > MAX_VISION_IMAGE_BYTES
            THEN Return(s, Null)
            ELSE BeginWrite(s, buffer, E_jpg, now)
    ELSE IF StartsWith(s.rawUrl, P_file)
    THEN LET localPath == decodeURIComponent(Slice(s.rawUrl, Len(P_file)))
         IN IF ~localPath.ok THEN CatchMaterialize(s, "URIError")
            ELSE IF localPath.str = Falsy THEN Return(s, Null)
            ELSE BeginStat(s, localPath.str)
    ELSE IF StartsWith(s.rawUrl, P_slash) THEN BeginStat(s, s.rawUrl)
    ELSE IF ~IsHttpRef(s.rawUrl) THEN Return(s, Null)
    ELSE BeginHead(s, now)

\* a check of the stat result that accepts whatever exists
AfterStat_AnyEntry(s, stat) ==
    IF stat.kind = "null" \/ stat.size > MAX_VISION_IMAGE_BYTES
    THEN Return([s EXCEPT !.statRes = stat], Null)
    ELSE Return([s EXCEPT !.statRes = stat], PathValue(s.path))

\* lines 92-93 and 98-99, once fs.stat(...).catch(() => null) has settled
AfterStat(s, stat) ==
    IF stat.kind = "null" \/ ~stat.isFile \/ stat.size > MAX_VISION_IMAGE_BYTES
    THEN Return([s EXCEPT !.statRes = stat], Null)
    ELSE Return([s EXCEPT !.statRes = stat], PathValue(s.path))

\* a HEAD stage that gives up when the HEAD request fails
AfterHead_Strict(s, res, now) ==
    IF res.kind # "response"
       \/ (res.ok /\ TooLong(parseContentLength(res.length),
                              MAX_VISION_IMAGE_BYTES))
    THEN Return(ClearHeadTimer([s EXCEPT !.headRes = res]), Null)
    ELSE BeginGet(ClearHeadTimer([s EXCEPT !.headRes = res]), now)

\* lines 108-119, once the HEAD fetch has settled with res
AfterHead(s, res, now) ==
    IF res.kind = "response" /\ res.ok
       /\ TooLong(parseContentLength(res.length), MAX_VISION_IMAGE_BYTES)
    THEN Return(ClearHeadTimer([s EXCEPT !.headRes = res]), Null)
    ELSE BeginGet(ClearHeadTimer([s EXCEPT !.headRes = res]), now)

\* lines 127-132 and 158-163, once the GET fetch has settled with res, up to
\* the first reader.read() of readResponseBodyWithLimit (lines 42-50)
AfterGet(s, res) ==
    LET s1 == [s EXCEPT !.getRes = res] IN
    IF res.kind # "response" THEN GetThrow(s1, "fetch")
    ELSE IF ~res.ok THEN GetReturn(s1, Null)
    ELSE IF TooLong(parseContentLength(res.length), MAX_VISION_IMAGE_BYTES)
    THEN GetReturn(s1, Null)
    ELSE IF ~res.hasBody THEN GetReturn(s1, Null)
    ELSE [s1 EXCEPT !.locked = TRUE, !.pc = "read"]

\* Buffer.concat(chunks, received)
RECURSIVE Concat(_)
Concat(chunks) ==
    IF chunks = <<>> THEN <<>> ELSE Head(chunks) \o Concat(Tail(chunks))

\* a caller that accepts an empty body
AfterBody_AllowEmpty(s, body, now) ==
    IF s.op = "materialize"
    THEN BeginWrite(s, body, E_jpg, now)
    ELSE GetReturn(s, PayloadValue(P_base64 \o toBase64(body)))

\* lines 133-136 and 164-166, with the body readResponseBodyWithLimit returned
AfterBody(s, body, now) ==
    IF Len(body) = 0 THEN GetReturn(s, Null)
    ELSE IF s.op = "materialize"
    THEN LET byType == extFromContentType(s.getRes.ctype)
             byUrl == extFromUrl(s.rawUrl)
             ext == OrElse(OrElse(byType, byUrl), E_jpg)
         IN BeginWrite(s, body, ext, now)
    ELSE GetReturn(s, PayloadValue(P_base64 \o toBase64(body)))

\* a loop that already stops at a count equal to the limit
AfterRead_Inclusive(s, ev, maxBytes, now) ==
    CASE ev.kind = "error" -> GetThrow([s EXCEPT !.locked = FALSE], "read")
      [] ev.kind = "done" ->
            AfterBody([s EXCEPT !.locked = FALSE], Concat(s.chunks), now)
      [] ev.kind = "undefined" -> s
      [] ev.kind = "chunk" ->
            LET received == s.received + Len(ev.value) IN
            IF received >= maxBytes
            THEN GetReturn([s EXCEPT !.received = received,
                                     !.getAborted = TRUE,
                                     !.locked = FALSE], Null)
            ELSE [s EXCEPT !.received = received,
                           !.chunks = Append(@, ev.value)]

\* one turn of the loop of readResponseBodyWithLimit, lines 50-64, with what
\* reader.read() settled with
AfterRead(s, ev, maxBytes, now) ==
    CASE ev.kind = "error" -> GetThrow([s EXCEPT !.locked = FALSE], "read")
      [] ev.kind = "done" ->
            AfterBody([s EXCEPT !.locked = FALSE], Concat(s.chunks), now)
      [] ev.kind = "undefined" -> s
      [] ev.kind = "chunk" ->
            LET received == s.received + Len(ev.value) IN
            IF received > maxBytes
            THEN GetReturn([s EXCEPT !.received = received,
                                     !.getAborted = TRUE,
                                     !.locked = FALSE], Null)
            ELSE [s EXCEPT !.received = received,
                           !.chunks = Append(@, ev.value)]

\* the HEAD timer's callback, line 105, and what the abort rejects
HeadTimerFired(s, now) ==
    LET s1 == [s EXCEPT !.headTimer = "fired", !.headAborted = TRUE] IN
    IF s.pc = "head" THEN AfterHead(s1, Aborted, now) ELSE s1

\* a GET timer whose callback aborts nothing
GetTimerFired_NoAbort(s) == [s EXCEPT !.getTimer = "fired"]

\* the GET timer's callback, lines 119 and 148, and what the abort rejects
GetTimerFired(s) ==
    LET s1 == [s EXCEPT !.getTimer = "fired", !.getAborted = TRUE] IN
    CASE s.pc = "get" -> AfterGet(s1, Aborted)
      [] s.pc = "read" -> GetThrow([s1 EXCEPT !.locked = FALSE], "abort")
      [] OTHER -> s1

\* lines 72-73 and the return of the caller (line 85, or line 136 inside the
\* GET try block), once fs.writeFile has settled
AfterWrite(s, ok) ==
    IF StartsWith(s.rawUrl, P_base64)
    THEN IF ok THEN Return([s EXCEPT !.writes = @ + 1], PathValue(s.path))
         ELSE CatchMaterialize(s, "write")
    ELSE IF ok THEN GetReturn([s EXCEPT !.writes = @ + 1], PathValue(s.path))
         ELSE GetThrow(s, "write")

\* fs.writeFile(outPath, buffer) on the temp directory
WriteFile(files, p, buffer) ==
    {f \in files : f.path # p} \cup {[path |-> p, bytes |-> buffer]}

\* ---------------------------------------------- vision helper: environment
B64Alphabet == {"A", "/", "=", "*"}
B64Bodies == UNION {[1..n -> B64Alphabet] : n \in 0..MaxB64Len}

FilePaths ==
    { <<>>, <<"/", "a">>, <<"%", "2", "F", "a">>, <<"%">>, <<"%", "F", "2">>,
      <<"a">> }

HttpRefs ==
    { P_http \o <<"h", "/", "a", ".", "P", "N", "G">>,
      P_https \o <<"h", "/", "b">> }

OtherRefs ==
    { <<"f", "t", "p", ":", "/", "/", "h">>,
      <<"H", "T", "T", "P", ":", "/", "/", "h">>,
      <<"d", "a", "t", "a", ":", ",", "x">>,
      <<"f", "i", "l", "e", ":", "/", "a">>,
      <<"b", "a", "s", "e", "6", "4", ":", "A", "A">>,
      <<"a">> }

RefSet ==
    {Falsy} \cup {P_base64 \o b : b \in B64Bodies}
    \cup {P_file \o p : p \in FilePaths}
    \cup { <<"/">>, <<"/", "a">> }
    \cup HttpRefs \cup OtherRefs

MessageIds == { <<"7">> }
Indexes == { 0 }

LengthHeaders ==
    { Falsy, Digits(MAX_VISION_IMAGE_BYTES), Digits(MAX_VISION_IMAGE_BYTES + 1) }

\* a content-length that is no number
BadLength == <<"1", "x">>

ContentTypes ==
    { Falsy, <<"I", "m", "a", "g", "e", "/", "G", "I", "F", " ", ";", "x">> }

StatResults ==
    {StatFailed}
    \cup {StatOf(f, n) : f \in BOOLEAN,
                         n \in {0, MAX_VISION_IMAGE_BYTES,
                                MAX_VISION_IMAGE_BYTES + 1}}

HeadOutcomes ==
    {Rejected, Response(TRUE, BadLength, Falsy, FALSE),
     Response(FALSE, Digits(MAX_VISION_IMAGE_BYTES + 1), Falsy, FALSE)}
    \cup {Response(TRUE, l, Falsy, FALSE) : l \in LengthHeaders}

GetOutcomes ==
    {Rejected, Response(TRUE, BadLength, Falsy, TRUE),
     Response(FALSE, Falsy, Falsy, TRUE)}
    \cup {Response(TRUE, l, t, b) : l \in LengthHeaders, t \in ContentTypes,
                                    b \in BOOLEAN}

Chunks == { <<>>, <<1>>, <<2>>, <<1, 2>> }

ReadEvents ==
    {[kind |-> k, value |-> <<>>] : k \in {"done", "error", "undefined"}}
    \cup {[kind |-> "chunk", value |-> c] : c \in Chunks}

\* ------------------------------------------------- vision helper: actions
\* a call of materializeImageForVision(rawUrl, messageId, index)
Materialize(rawUrl, messageId, index) ==
    /\ vis.pc = "idle"
    /\ vis' = MaterializeEntry([vis EXCEPT !.op = "materialize",
                                           !.rawUrl = rawUrl,
                                           !.messageId = messageId,
                                           !.index = index], clock)
    /\ UNCHANGED <<tmpFiles, clock, ticks, ronly, writers>>

\* a call of downloadImageUrlAsBase64(rawUrl)
Download(rawUrl) ==
    /\ vis.pc = "idle"
    /\ vis' = BeginGet([vis EXCEPT !.op = "download", !.rawUrl = rawUrl], clock)
    /\ UNCHANGED <<tmpFiles, clock, ticks, ronly, writers>>

\* fs.stat settles
StatSettles(stat) ==
    /\ vis.pc = "stat"
    /\ vis' = AfterStat(vis, stat)
    /\ UNCHANGED <<tmpFiles, clock, ticks, ronly, writers>>

\* the HEAD fetch settles by itself: a response, or a network error
HeadSettles(res) ==
    /\ vis.pc = "head"
    /\ vis' = AfterHead(vis, res, clock)
    /\ UNCHANGED <<tmpFiles, clock, ticks, ronly, writers>>

\* setTimeout of line 105 expires
HeadTimeout ==
    /\ vis.headTimer = "armed"
    /\ clock >= vis.headDeadline
    /\ vis' = HeadTimerFired(vis, clock)
    /\ UNCHANGED <<tmpFiles, clock, ticks, ronly, writers>>

\* fetch accepts http:, https: and data: URLs and rejects every other string
Fetchable(rawUrl) ==
    \/ StartsWith(rawUrl, P_http)
    \/ StartsWith(rawUrl, P_https)
    \/ StartsWith(rawUrl, <<"d", "a", "t", "a", ":">>)

\* the GET fetch settles by itself: a response, or a rejection
GetSettles(res) ==
    /\ vis.pc = "get"
    /\ res.kind = "response" => Fetchable(vis.rawUrl)
    /\ vis' = AfterGet(vis, res)
    /\ UNCHANGED <<tmpFiles, clock, ticks, ronly, writers>>

\* reader.read() settles by itself
ReadSettles(ev) ==
    /\ vis.pc = "read"
    /\ ev.kind = "chunk" => Len(vis.chunks) < MaxReads
    /\ vis' = AfterRead(vis, ev, MAX_VISION_IMAGE_BYTES, clock)
    /\ UNCHANGED <<tmpFiles, clock, ticks, ronly, writers>>

\* setTimeout of line 119 or 148 expires
GetTimeout ==
    /\ vis.getTimer = "armed"
    /\ clock >= vis.getDeadline
    /\ vis' = GetTimerFired(vis)
    /\ UNCHANGED <<tmpFiles, clock, ticks, ronly, writers>>

\* fs.writeFile settles
WriteSettles(ok) ==
    /\ vis.pc = "write"
    /\ vis' = AfterWrite(vis, ok)
    /\ tmpFiles' = IF ok THEN WriteFile(tmpFiles, vis.path, vis.buf) ELSE tmpFiles
    /\ UNCHANGED <<clock, ticks, ronly, writers>>

VisionTimerArmed ==
    \/ vis.headTimer = "armed" /\ vis.headDeadline > clock
    \/ vis.getTimer = "armed" /\ vis.getDeadline > clock

\* time passes
TickVision ==
    /\ VisionTimerArmed
    /\ clock' = clock + TickMs
    /\ ticks' = ticks + 1
    /\ UNCHANGED <<vis, tmpFiles, ronly, writers>>

NextVision ==
    \/ /\ vis.pc = "idle"
       /\ \E rawUrl \in RefSet, messageId \in MessageIds, index \in Indexes :
             Materialize(rawUrl, messageId, index)
    \/ /\ vis.pc = "idle"
       /\ \E rawUrl \in HttpRefs \cup OtherRefs : Download(rawUrl)
    \/ \E stat \in StatResults : StatSettles(stat)
    \/ \E res \in HeadOutcomes : HeadSettles(res)
    \/ HeadTimeout
    \/ \E res \in GetOutcomes : GetSettles(res)
    \/ \E ev \in ReadEvents : ReadSettles(ev)
    \/ GetTimeout
    \/ \E ok \in BOOLEAN : WriteSettles(ok)
    \/ TickVision

\* ------------------------------------- vision helper: concurrent writers
\* message identifiers, one of them ending like a timestamp and an index
WriterIds == { <<"7">>, <<"7", "_", "0">>, <<"7", "_", "0", "_", "0">> }
WriterIndexes == {0, 1}
WriterExts == {E_jpg, E_png}
WriterBuffers == { <<1>>, <<2>> }

\* call w enters writeTempImageFile(buffer, messageId, index, extHint) and
\* waits for fs.writeFile, lines 68-72
WriterBegin(w, buffer, messageId, index, extHint) ==
    /\ writers[w].pc = "idle"
    /\ writers' = [writers EXCEPT ![w] =
                      BeginWrite([@ EXCEPT !.op = "materialize",
                                           !.messageId = messageId,
                                           !.index = index],
                                 buffer, extHint, clock)]
    /\ UNCHANGED <<vis, tmpFiles, clock, ticks, ronly>>

\* fs.writeFile of call w settles, and the call returns, lines 72-73
WriterSettles(w, ok) ==
    /\ writers[w].pc = "write"
    /\ writers' = [writers EXCEPT ![w] = AfterWrite(@, ok)]
    /\ tmpFiles' = IF ok THEN WriteFile(tmpFiles, writers[w].path, writers[w].buf)
                   ELSE tmpFiles
    /\ UNCHANGED <<vis, clock, ticks, ronly>>

\* time passes
TickNames ==
    /\ ticks < MaxTicks
    /\ clock' = clock + TickMs
    /\ ticks' = ticks + 1
    /\ UNCHANGED <<vis, tmpFiles, writers, ronly>>

NextNames ==
    \/ \E w \in Writers :
          /\ writers[w].pc = "idle"
          /\ \E buffer \in WriterBuffers, messageId \in WriterIds,
                index \in WriterIndexes, extHint \in WriterExts :
                WriterBegin(w, buffer, messageId, index, extHint)
    \/ \E w \in Writers, ok \in BOOLEAN : WriterSettles(w, ok)
    \/ TickNames

Init == InitRepro /\ InitVision

\* calls of writeTempImageFile running side by side
SpecNames == Init /\ [][NextNames]_vars

SpecRepro == Init /\ [][NextRepro]_vars

\* time passes, expired timers run their callbacks and main runs when it can;
\* the server owes nothing
FairSpecRepro ==
    /\ SpecRepro
    /\ WF_vars(TickRepro)
    /\ WF_vars(\E k \in DOMAIN calls : OnTimer(k))
    /\ WF_vars(AfterOpen)

SpecVision == Init /\ [][NextVision]_vars

\* time passes, expired timers run their callbacks, and the local file system
\* answers; the network owes nothing
FairSpecVision ==
    /\ SpecVision
    /\ WF_vars(TickVision)
    /\ WF_vars(HeadTimeout)
    /\ WF_vars(GetTimeout)
    /\ WF_vars(\E ok \in BOOLEAN : WriteSettles(ok))

\* =================================================================
\* Claims about the repro script (specification SpecRepro)
\* =================================================================

\* C1: when the "message" handler handles a frame whose echo is the token of
\* a call that is still SENT (its timer has not fired), the call resolves
\* with exactly that frame, its timer is cleared, and pending no longer holds
\* the token.
C1_MatchResolves ==
    [][\A raw \in Messages : \A k \in DOMAIN calls :
          (/\ OnMessage(raw)
           /\ raw.kind = "json"
           /\ raw.echo = calls[k].echo
           /\ calls[k].status = "SENT")
          => /\ calls'[k].status = "RESOLVED"
             /\ calls'[k].result = raw
             /\ calls'[k].timer = "cleared"
             /\ ~PendingHas(pending', calls[k].echo)]_vars

\* a call resolved by a frame carrying its token
C1_Witness ==
    \E k \in DOMAIN calls :
        /\ calls[k].status = "RESOLVED"
        /\ calls[k].result.echo = calls[k].echo
        /\ calls[k].timer = "cleared"
        /\ ~PendingHas(pending, calls[k].echo)

\* C2: the timer of a call fires no earlier than DEFAULT_TIMEOUT_MS after the
\* call was made; when it fires on a call still SENT the call is rejected
\* with the timeout error naming the call's action and token, main fails with
\* that error, and the entry is removed; and once a call has settled, either
\* way, pending holds no entry for its token.
C2_TimeoutRejects ==
    /\ [](\A k \in DOMAIN calls :
            calls[k].status # "SENT" => ~PendingHas(pending, calls[k].echo))
    /\ [][\A k \in DOMAIN calls :
            (OnTimer(k) /\ calls[k].status = "SENT")
            => /\ clock >= calls[k].echo[1] + DEFAULT_TIMEOUT_MS
               /\ calls'[k].status = "TIMED_OUT"
               /\ calls'[k].result = [kind |-> "timeout",
                                      action |-> Steps[k].action,
                                      echo |-> calls[k].echo]
               /\ failure' = calls'[k].result
               /\ ~PendingHas(pending', calls[k].echo)]_vars

\* a call that timed out
C2_Witness ==
    \E k \in DOMAIN calls :
        /\ calls[k].status = "TIMED_OUT"
        /\ calls[k].result.kind = "timeout"
        /\ calls[k].result.echo = calls[k].echo
        /\ pending = {}

\* the arguments or the input files are unusable: no endpoint, no --mp4, no
\* --txt, a --group that is no number, or a file that does not exist
ArgumentError ==
    \/ cfg.wsUrl = Falsy
    \/ cfg.mp4 = Falsy
    \/ cfg.txt = Falsy
    \/ ~isFinite(parseInt(cfg.group))
    \/ ~existsFile(cfg.mp4)
    \/ ~existsFile(cfg.txt)

\* C4: with missing or invalid arguments or a missing input file the script
\* exits with code 2 before any network activity; an unhandled failure exits
\* with code 1 and a completed sequence with code 0.
C4_ExitCodes ==
    /\ (r_pc # "init" /\ ArgumentError)
          => /\ ws_state = "none"
             /\ sent = <<>>
             /\ r_pc = "exited" => exitCode = 2
    /\ (r_pc = "exited" /\ failure # NoFailure) => exitCode = 1
    /\ (r_pc = "exited" /\ ~ArgumentError /\ failure = NoFailure)
          => exitCode = 0 /\ Len(sent) = Len(Steps)

\* C10: a call only ever moves from SENT to RESOLVED or to TIMED_OUT, a
\* settled call never changes again (no timer rejects a resolved call, no
\* frame resolves a timed-out call), calls and requests are only ever added,
\* and no request goes out twice: the n-th request on the wire is the n-th
\* step of the sequence, under a token no other request carries.
C10_Terminal ==
    /\ [](\A i \in DOMAIN sent :
            /\ sent[i].action = Steps[i].action
            /\ sent[i].params.body = Steps[i].body
            /\ \A j \in DOMAIN sent : sent[i].echo = sent[j].echo => i = j)
    /\ [](\A k \in DOMAIN calls :
            /\ calls[k].status \in {"SENT", "RESOLVED", "TIMED_OUT"}
            /\ calls[k].status = "RESOLVED" => calls[k].timer = "cleared"
            /\ calls[k].status = "TIMED_OUT" => calls[k].timer = "fired")
    /\ [][/\ Len(calls') >= Len(calls)
          /\ Len(sent') >= Len(sent)
          /\ SubSeq(sent', 1, Len(sent)) = sent
          /\ \A k \in DOMAIN calls :
                calls[k].status # "SENT" => calls'[k] = calls[k]]_vars

\* a settled call followed by a later call, and a call that timed out
C10_Witness ==
    /\ Len(calls) >= 2
    /\ calls[1].status = "RESOLVED"
    /\ calls[Len(calls)].status = "TIMED_OUT"

\* =================================================================
\* Claims about the vision helper (specifications SpecVision and
\* FairSpecVision)
\* =================================================================

\* the call is one of materializeImageForVision
IsMaterialize == vis.op = "materialize"

\* the bytes a base64:// reference decodes to
DecodedLength ==
    IF StartsWith(vis.rawUrl, P_base64)
    THEN Len(BufferFromBase64(Slice(vis.rawUrl, Len(P_base64))))
    ELSE 0

\* the number a response declares as its content-length, -1 when it declares
\* none
Declared(res) ==
    IF res.kind = "response" /\ res.length # Falsy
       /\ isFinite(Number(res.length))
    THEN Number(res.length).n
    ELSE -1

\* a size above the maximum, measured any of the ways but the HEAD response
OversizeButHead ==
    \/ DecodedLength > MAX_VISION_IMAGE_BYTES
    \/ vis.statRes.kind = "stat" /\ vis.statRes.size > MAX_VISION_IMAGE_BYTES
    \/ Declared(vis.getRes) > MAX_VISION_IMAGE_BYTES
    \/ vis.received > MAX_VISION_IMAGE_BYTES

\* the call writes nothing and, once it has returned, has returned null
NullAndNoFile ==
    /\ tmpFiles = {}
    /\ vis.writes = 0
    /\ vis.pc # "write"
    /\ vis.pc = "done" => vis.outcome = Null

\* C3 as stated: whenever a size above the maximum was measured, the content-
\* length of any HEAD response included, the call returns null and writes no
\* temp file.
C3_Original ==
    (IsMaterialize
     /\ (OversizeButHead \/ Declared(vis.headRes) > MAX_VISION_IMAGE_BYTES))
    => NullAndNoFile

\* C3 as amended: the same, with the HEAD response counted only when its
\* status is a success; the length of a non-success HEAD response is ignored.
C3_OversizeIsNull ==
    (IsMaterialize
     /\ (OversizeButHead
         \/ (vis.headRes.ok /\ Declared(vis.headRes) > MAX_VISION_IMAGE_BYTES)))
    => NullAndNoFile

\* a body that outgrew the maximum while it was streamed, and the call over
C3_Witness ==
    /\ IsMaterialize
    /\ vis.received > MAX_VISION_IMAGE_BYTES
    /\ vis.pc = "done"
    /\ vis.outcome = Null

\* a network stage of a call of materializeImageForVision is under way
InNetworkBranch ==
    IsMaterialize /\ vis.pc \in {"head", "get", "read", "write"}
    /\ vis.requests # <<>>

\* C5: a call on an http(s) reference returns whatever the network does: a
\* HEAD that does not complete is aborted by its timer and the GET is issued,
\* a GET whose headers or body do not complete is aborted by its timer and
\* the call returns null.
C5_EventuallyReturns ==
    /\ InNetworkBranch ~> (vis.pc = "done")
    /\ [][(HeadTimeout /\ IsMaterialize /\ vis.pc = "head")
          => /\ vis'.headAborted
             /\ vis'.headTimer = "fired"
             /\ vis'.pc = "get"
             /\ vis'.requests = <<"HEAD", "GET">>
             /\ vis'.getTimer = "armed"]_vars
    /\ [][(GetTimeout /\ IsMaterialize /\ vis.pc \in {"get", "read"})
          => /\ vis'.getAborted
             /\ vis'.getTimer = "fired"
             /\ vis'.pc = "done"
             /\ vis'.outcome = Null
             /\ tmpFiles' = {}]_vars

\* a GET that never answered, ended by its timer
C5_Witness ==
    /\ IsMaterialize
    /\ vis.getRes.kind = "aborted"
    /\ vis.getTimer = "fired"
    /\ vis.pc = "done"
    /\ vis.outcome = Null

\* something failed during the call
SomethingFailed ==
    \/ vis.caught # "none"
    \/ vis.statRes.kind = "null"
    \/ vis.getRes.kind \in {"rejected", "aborted"}
    \/ vis.getRes.kind = "response" /\ ~vis.getRes.ok
    \/ vis.received > MAX_VISION_IMAGE_BYTES
    \/ Declared(vis.getRes) > MAX_VISION_IMAGE_BYTES
    \/ StartsWith(vis.rawUrl, P_file) /\ IsMaterialize
       /\ ~decodeURIComponent(Slice(vis.rawUrl, Len(P_file))).ok

\* C6: neither function ever throws: a call ends by returning, and a call in
\* which anything failed (stat, URL decoding, fetch, abort, status, size,
\* write) returns null.
C6_NeverThrows ==
    /\ vis.outcome.kind \in {"pending", "null", "path", "payload"}
    /\ vis.pc = "done" <=> vis.outcome.kind # "pending"
    /\ (vis.pc = "done" /\ SomethingFailed) => vis.outcome = Null

\* a failed write of the temp file, swallowed
C6_Witness ==
    /\ vis.pc = "done"
    /\ vis.caught = "write"
    /\ vis.outcome = Null

\* the reference is a file:// reference or an absolute path
IsLocalRef ==
    IsMaterialize
    /\ (StartsWith(vis.rawUrl, P_file) \/ StartsWith(vis.rawUrl, P_slash))

\* the path a local reference names
NamedPath ==
    IF StartsWith(vis.rawUrl, P_file)
    THEN decodeURIComponent(Slice(vis.rawUrl, Len(P_file))).str
    ELSE vis.rawUrl

\* C7: for a local reference the call returns the named path itself when
\* stat shows a regular file of at most the maximum size, and null otherwise;
\* it issues no request, arms no timer and writes nothing.
C7_LocalPathUnchanged ==
    IsLocalRef
    => /\ vis.requests = <<>>
       /\ vis.headTimer = "unset" /\ vis.getTimer = "unset"
       /\ tmpFiles = {} /\ vis.writes = 0 /\ vis.pc # "write"
       /\ vis.pc = "done"
          => vis.outcome =
                IF /\ vis.statRes.kind = "stat"
                   /\ vis.statRes.isFile
                   /\ vis.statRes.size <= MAX_VISION_IMAGE_BYTES
                THEN PathValue(NamedPath)
                ELSE Null

\* a file:// reference with an escaped path, returned decoded
C7_Witness ==
    /\ IsLocalRef
    /\ vis.rawUrl = P_file \o <<"%", "2", "F", "a">>
    /\ vis.pc = "done"
    /\ vis.outcome = PathValue(<<"/", "a">>)
    /\ vis.statRes.size = MAX_VISION_IMAGE_BYTES

\* the reference has none of the five prefixes
Unrecognized ==
    /\ ~StartsWith(vis.rawUrl, P_base64)
    /\ ~StartsWith(vis.rawUrl, P_file)
    /\ ~StartsWith(vis.rawUrl, P_slash)
    /\ ~StartsWith(vis.rawUrl, P_http)
    /\ ~StartsWith(vis.rawUrl, P_https)

\* C8: a base64:// reference is never stat'ed or fetched, a file:// or
\* absolute reference is never fetched or written, an http(s) reference is
\* never stat'ed, and every other reference returns null at once with no file
\* read or written, no request, no timer and no log line.
C8_UnrecognizedIsNull ==
    IsMaterialize
    => /\ StartsWith(vis.rawUrl, P_base64)
          => vis.statCalls = 0 /\ vis.requests = <<>>
       /\ (StartsWith(vis.rawUrl, P_file) \/ StartsWith(vis.rawUrl, P_slash))
          => vis.requests = <<>> /\ vis.writes = 0
       /\ (StartsWith(vis.rawUrl, P_http) \/ StartsWith(vis.rawUrl, P_https))
          => vis.statCalls = 0 /\ vis.requests # <<>>
       /\ Unrecognized
          => /\ vis.pc = "done"
             /\ vis.outcome = Null
             /\ vis.statCalls = 0
             /\ vis.requests = <<>>
             /\ vis.headTimer = "unset" /\ vis.getTimer = "unset"
             /\ tmpFiles = {} /\ vis.writes = 0
             /\ vis.warnings = 0

\* a reference with another scheme, answered with null
C8_Witness ==
    /\ IsMaterialize
    /\ vis.rawUrl = <<"f", "t", "p", ":", "/", "/", "h">>
    /\ vis.pc = "done"
    /\ vis.outcome = Null

\* the requests are HEAD then GET, and the GET waits for the HEAD to settle
HeadPrecedesGet ==
    /\ vis.requests \in {<<>>, <<"HEAD">>, <<"HEAD", "GET">>}
    /\ "GET" \in {vis.requests[i] : i \in DOMAIN vis.requests}
          => vis.headRes.kind # "none" /\ vis.headTimer # "armed"

\* the limit is enforced on the GET response and on the streamed bytes
GetEnforcesLimit ==
    (Declared(vis.getRes) > MAX_VISION_IMAGE_BYTES
     \/ vis.received > MAX_VISION_IMAGE_BYTES)
    => NullAndNoFile /\ vis.pc = "done"

\* C9 as stated: a HEAD response, whatever its status, that declares a size
\* above the maximum ends the call with null and no GET.
C9_Original ==
    (IsMaterialize /\ Declared(vis.headRes) > MAX_VISION_IMAGE_BYTES)
    => /\ vis.pc = "done"
       /\ vis.outcome = Null
       /\ vis.requests = <<"HEAD">>

\* C9 as amended: HEAD precedes GET; a successful HEAD response that declares
\* a size above the maximum ends the call with null and no GET; after any
\* other HEAD outcome (network error, abort by the timer, non-success status,
\* no usable length, a length within the maximum) the GET has been issued;
\* and the limit is enforced again on the GET.
C9_HeadBestEffort ==
    IsMaterialize
    => /\ HeadPrecedesGet
       /\ GetEnforcesLimit
       /\ (vis.headRes.ok /\ Declared(vis.headRes) > MAX_VISION_IMAGE_BYTES)
          => /\ vis.pc = "done"
             /\ vis.outcome = Null
             /\ vis.requests = <<"HEAD">>
       /\ (/\ vis.headRes.kind # "none"
           /\ ~(vis.headRes.ok
                /\ Declared(vis.headRes) > MAX_VISION_IMAGE_BYTES))
          => vis.requests = <<"HEAD", "GET">>

\* a HEAD that was rejected, and a GET whose declared length ended the call
C9_Witness ==
    /\ IsMaterialize
    /\ vis.headRes.kind = "rejected"
    /\ vis.requests = <<"HEAD", "GET">>
    /\ Declared(vis.getRes) > MAX_VISION_IMAGE_BYTES
    /\ vis.pc = "done"
    /\ vis.outcome = Null

\* =================================================================
\* Further claims about the repro script (specifications SpecRepro and
\* FairSpecRepro)
\* =================================================================

\* C11: pending never holds more than one entry, and that entry is the one
\* of the last call; the requests on the wire are the steps of the sequence
\* in order; and every call but the last has resolved, so a step is sent
\* only after the step before it has resolved.
C11_OneOutstanding ==
    /\ Cardinality(pending) <= 1
    /\ \A e \in pending :
          e.call = Len(calls) /\ e.echo = calls[Len(calls)].echo
    /\ Len(sent) = Len(calls)
    /\ Len(sent) <= Len(Steps)
    /\ \A i \in DOMAIN sent :
          /\ sent[i].action = Steps[i].action
          /\ sent[i].params.body = Steps[i].body
          /\ sent[i].echo = calls[i].echo
    /\ \A k \in DOMAIN calls : k < Len(calls) => calls[k].status = "RESOLVED"

\* the sixth request on the wire, its call the only one outstanding
C11_Witness ==
    /\ Len(sent) = Len(Steps)
    /\ Cardinality(pending) = 1
    /\ calls[Len(Steps)].status = "SENT"

\* the frame carries the token of an entry of pending
MatchesPending(raw) ==
    /\ raw.kind = "json"
    /\ raw.echo # NoEcho
    /\ \E e \in pending : e.echo = raw.echo

\* C12: a frame that is not JSON, has no echo, or has an echo no entry of
\* pending carries changes nothing of the calls: pending, every call record
\* (status, timer, result), main's position and the wire are as before; and
\* a frame whose echo an entry carries is never discarded: it settles the
\* call of that entry, whichever call it is.
C12_UnmatchedIsDiscarded ==
    [][\A raw \in Messages :
          OnMessage(raw)
          => IF MatchesPending(raw)
             THEN /\ dropped' = dropped
                  /\ \A e \in pending :
                        e.echo = raw.echo
                        => /\ calls'[e.call].result = raw
                           /\ e \notin pending'
             ELSE /\ dropped' = dropped + 1
                  /\ UNCHANGED <<pending, calls, r_pc, step, seq, sent,
                                 ws_state, closeCalls, failure, exitCode>>]_vars

\* a frame was discarded, and the call in flight is still waiting with its
\* timer armed
C12_Witness ==
    /\ dropped > 0
    /\ Len(calls) >= 2
    /\ calls[Len(calls)].status = "SENT"
    /\ calls[Len(calls)].timer = "armed"
    /\ Cardinality(pending) = 1

\* a call of the sequence failed
CallFailed == failure.kind \in {"timeout", "send"}

\* C13: when a call fails, by timeout or because the send threw, main is
\* rejected with that failure, the socket has been closed once, the process
\* exits with code 1, and the wire holds no step after the failed one.
C13_FailFast ==
    /\ [](CallFailed
          => /\ r_pc = "exited"
             /\ exitCode = 1
             /\ closeCalls = 1
             /\ ws_state = "closing"
             /\ failure.action = Steps[step].action
             /\ Len(sent) = IF failure.kind = "timeout" THEN step ELSE step - 1
             /\ failure.kind = "timeout"
                   => calls[step].status = "TIMED_OUT"
                      /\ failure = calls[step].result)
    /\ [][CallFailed => UNCHANGED <<sent, calls, seq, step>>]_vars
    /\ [][(\E k \in DOMAIN calls : calls'[k].status = "TIMED_OUT")
          => failure'.kind = "timeout"]_vars

\* the third call timed out: two requests before it, none after
C13_Witness ==
    /\ failure.kind = "timeout"
    /\ step = 3
    /\ Len(sent) = 3
    /\ exitCode = 1
    /\ closeCalls = 1

\* main has ended: it returned, or the process exited
MainEnded == r_pc \in {"returned", "exited"}

\* C19: from the moment the socket is open main ends, and every call that
\* was issued settles; and when main has ended after entering the sequence
\* of calls, ws.close() has been called exactly once, pending is empty and no
\* call timer is armed.
C19_Terminates ==
    /\ (r_pc = "opened") ~> MainEnded
    /\ \A k \in 1..Len(Steps) :
          (Len(calls) >= k /\ calls[k].status = "SENT")
          ~> (Len(calls) >= k
              /\ calls[k].status \in {"RESOLVED", "TIMED_OUT"})
    /\ []((MainEnded /\ seq > 0)
          => /\ closeCalls = 1
             /\ ws_state \in {"closing", "closed"}
             /\ pending = {}
             /\ \A k \in DOMAIN calls :
                   calls[k].timer # "armed" /\ calls[k].status # "SENT")

\* main returned after six resolved calls, the socket closed once
C19_Witness ==
    /\ r_pc = "returned"
    /\ Len(calls) = Len(Steps)
    /\ \A k \in DOMAIN calls : calls[k].status = "RESOLVED"
    /\ closeCalls = 1
    /\ pending = {}

\* =================================================================
\* Further claims about the vision helper (specifications SpecVision and
\* SpecNames)
\* =================================================================

\* the GET request of the call has been issued
GetIssued == \E i \in DOMAIN vis.requests : vis.requests[i] = "GET"

\* the bytes the body stream delivered, in order
StreamedBytes == Concat(vis.chunks)

\* the GET went well: a success status, no declared length above the
\* maximum, a body, and a stream that ended, without error or abort, after
\* between 1 and MAX_VISION_IMAGE_BYTES bytes
GetStageOk ==
    /\ vis.getRes.kind = "response"
    /\ vis.getRes.ok
    /\ Declared(vis.getRes) <= MAX_VISION_IMAGE_BYTES
    /\ vis.getRes.hasBody
    /\ vis.caught \notin {"fetch", "read", "abort"}
    /\ ~vis.locked
    /\ Len(StreamedBytes) > 0
    /\ vis.received <= MAX_VISION_IMAGE_BYTES

\* C14: downloadImageUrlAsBase64 issues exactly one GET and no HEAD, stats
\* and writes nothing, and returns a payload exactly when the GET went well,
\* the payload decoding to exactly the streamed bytes; the GET stage of
\* materializeImageForVision returns a path under the same condition (and
\* the write of the temp file succeeding), the file holding exactly the
\* streamed bytes; in every other case both return null.
C14_SamePolicy ==
    /\ vis.op = "download"
       => /\ vis.requests = <<"GET">>
          /\ vis.headTimer = "unset"
          /\ vis.statCalls = 0 /\ vis.writes = 0 /\ tmpFiles = {}
          /\ vis.pc = "done"
             => IF GetStageOk
                THEN /\ vis.outcome.kind = "payload"
                     /\ StartsWith(vis.outcome.str, P_base64)
                     /\ BufferFromBase64(Slice(vis.outcome.str, Len(P_base64)))
                           = StreamedBytes
                ELSE vis.outcome = Null
    /\ (IsMaterialize /\ GetIssued /\ vis.pc = "done")
       => IF GetStageOk /\ vis.caught # "write"
          THEN /\ vis.outcome = PathValue(vis.path)
               /\ tmpFiles = {[path |-> vis.path, bytes |-> StreamedBytes]}
          ELSE vis.outcome = Null /\ tmpFiles = {}

\* a download that returned a payload of exactly the maximum size
C14_Witness ==
    /\ vis.op = "download"
    /\ vis.pc = "done"
    /\ vis.outcome.kind = "payload"
    /\ vis.received = MAX_VISION_IMAGE_BYTES
    /\ Len(vis.chunks) >= 2

\* calls a and b were made for different messages or different indexes
DifferentOwners(a, b) ==
    <<writers[a].messageId, writers[a].index>>
       # <<writers[b].messageId, writers[b].index>>

\* C15: two calls running side by side for different message identifiers or
\* different indexes write to different paths, whatever the clock showed when
\* each of them built its name; so when both have written, each one's file is
\* there with its own bytes.
C15_NoCollision ==
    \A a, b \in Writers :
        (/\ a # b
         /\ writers[a].pc \in {"write", "done"}
         /\ writers[b].pc \in {"write", "done"}
         /\ DifferentOwners(a, b))
        => /\ writers[a].path # writers[b].path
           /\ writers[a].outcome.kind = "path"
              => [path |-> writers[a].outcome.str, bytes |-> writers[a].buf]
                    \in tmpFiles

\* two calls for different messages wrote in the same millisecond, with the
\* same index and extension, and both files are there
C15_Witness ==
    /\ clock = 0
    /\ writers[1].messageId # writers[2].messageId
    /\ writers[1].index = writers[2].index
    /\ writers[1].outcome.kind = "path"
    /\ writers[2].outcome.kind = "path"
    /\ Cardinality(tmpFiles) = 2

\* the call is one of materializeImageForVision on a base64:// reference
IsBase64Ref == IsMaterialize /\ StartsWith(vis.rawUrl, P_base64)

\* the bytes the body of the reference decodes to
DecodedBytes == BufferFromBase64(Slice(vis.rawUrl, Len(P_base64)))

\* the last four characters of a path
Extension(p) == SubSeq(p, Len(p) - 3, Len(p))

\* C16: for a base64:// reference whose body decodes to between 1 and
\* MAX_VISION_IMAGE_BYTES bytes the call writes exactly one temp file, holding
\* exactly the decoded bytes under a name ending in .jpg, and returns its
\* path (null, and no file, when that write fails); when the body is empty or
\* decodes to no byte, null is returned and no file is written; and no
\* request or stat is ever made.
C16_Base64Lossless ==
    IsBase64Ref
    => /\ vis.requests = <<>> /\ vis.statCalls = 0
       /\ vis.pc \in {"write", "done"}
       /\ vis.pc = "write" => Len(DecodedBytes) \in 1..MAX_VISION_IMAGE_BYTES
       /\ vis.pc = "done"
          => IF Len(DecodedBytes) \in 1..MAX_VISION_IMAGE_BYTES
                /\ vis.caught # "write"
             THEN /\ vis.outcome.kind = "path"
                  /\ tmpFiles = {[path |-> vis.outcome.str,
                                  bytes |-> DecodedBytes]}
                  /\ vis.writes = 1
                  /\ Extension(vis.outcome.str) = <<".", "j", "p", "g">>
                  /\ StartsWith(vis.outcome.str, <<"/", "t", "m", "p", "/">>)
             ELSE vis.outcome = Null /\ tmpFiles = {} /\ vis.writes = 0

\* a body with a character outside the alphabet and padding, decoded to two
\* bytes and written
C16_Witness ==
    /\ IsBase64Ref
    /\ Slice(vis.rawUrl, Len(P_base64)) = <<"/", "*", "A", "A", "=">>
    /\ vis.pc = "done"
    /\ vis.outcome.kind = "path"
    /\ tmpFiles = {[path |-> vis.outcome.str, bytes |-> <<252, 0>>]}

\* the number of bytes of a sequence of chunks
RECURSIVE TotalLength(_)
TotalLength(chunks) ==
    IF chunks = <<>> THEN 0 ELSE Len(Head(chunks)) + TotalLength(Tail(chunks))

\* C17: while the body is read the counter is the number of bytes of the
\* chunks kept, and is at most the maximum. A chunk that takes the count
\* above the maximum signals abort, ends the call with null and is the last
\* thing read; any other chunk is appended and the loop goes on. When the
\* stream ends the body handed on is the concatenation of the chunks in
\* order. The reader is locked exactly while the loop runs: every exit
\* (limit, end of stream, read error, abort by the timer) releases it.
C17_StreamLimit ==
    /\ [](/\ vis.locked <=> vis.pc = "read"
          /\ vis.pc = "read"
             => /\ vis.received = TotalLength(vis.chunks)
                /\ vis.received <= MAX_VISION_IMAGE_BYTES
          /\ vis.received > MAX_VISION_IMAGE_BYTES
             => /\ vis.pc = "done"
                /\ vis.outcome = Null
                /\ vis.getAborted
                /\ tmpFiles = {})
    /\ [][\A ev \in ReadEvents :
            (ReadSettles(ev) /\ ev.kind = "chunk")
            => IF vis.received + Len(ev.value) > MAX_VISION_IMAGE_BYTES
               THEN /\ vis'.pc = "done"
                    /\ vis'.outcome = Null
                    /\ vis'.getAborted
                    /\ ~vis'.locked
                    /\ vis'.chunks = vis.chunks
               ELSE /\ vis'.pc = "read"
                    /\ vis'.received = vis.received + Len(ev.value)
                    /\ vis'.chunks = Append(vis.chunks, ev.value)
                    /\ ~vis'.getAborted]_vars
    /\ [][(vis.pc = "read" /\ vis'.pc = "write")
          => vis'.buf = Concat(vis.chunks) /\ vis'.chunks = vis.chunks]_vars
    /\ [][(vis.pc = "read" /\ vis'.outcome.kind = "payload")
          => BufferFromBase64(Slice(vis'.outcome.str, Len(P_base64)))
                = Concat(vis.chunks)]_vars

\* a body of exactly the maximum size, delivered in two chunks around an
\* empty one, and handed on whole
C17_Witness ==
    /\ vis.pc = "write"
    /\ vis.chunks = <<<<1>>, <<>>, <<2>>>>
    /\ vis.buf = <<1, 2>>
    /\ vis.received = MAX_VISION_IMAGE_BYTES
    /\ ~vis.locked

\* C18: at most one of the two timers is armed; the HEAD timer is no longer
\* armed once the GET is issued, and is armed only while the HEAD request is
\* in flight; no timer is armed once the call has returned; an abort is only
\* ever signalled on the controller of the request in flight; the callback
\* of the HEAD timer leaves the GET's controller alone and the callback of
\* the GET timer leaves the HEAD's controller alone.
C18_TimersIndependent ==
    /\ [](/\ ~(vis.headTimer = "armed" /\ vis.getTimer = "armed")
          /\ vis.headTimer = "armed" <=> vis.pc = "head"
          /\ GetIssued => vis.headTimer \in {"unset", "cleared", "fired"}
          /\ vis.pc = "done"
             => vis.headTimer # "armed" /\ vis.getTimer # "armed"
          /\ vis.getTimer # "unset" <=> GetIssued
          /\ vis.headAborted => vis.headTimer = "fired"
          /\ vis.getTimer = "fired" => vis.getAborted)
    /\ [][HeadTimeout
          => /\ vis'.headAborted
             /\ vis'.getAborted = vis.getAborted
             /\ ~vis'.getAborted
             /\ vis'.getTimer = "armed" /\ vis'.pc = "get"]_vars
    /\ [][GetTimeout
          => /\ vis'.getAborted
             /\ vis'.headAborted = vis.headAborted
             /\ vis'.headTimer = vis.headTimer]_vars

\* a call in which the HEAD timer expired, the GET went out, and the GET
\* timer expired in its turn
C18_Witness ==
    /\ IsMaterialize
    /\ vis.headTimer = "fired"
    /\ vis.headAborted
    /\ vis.getTimer = "fired"
    /\ vis.getAborted
    /\ vis.pc = "done"

\* the GET was answered with a success status and a body that is absent, or
\* whose stream ended without a byte
EmptyBody ==
    /\ vis.getRes.kind = "response"
    /\ vis.getRes.ok
    /\ Declared(vis.getRes) <= MAX_VISION_IMAGE_BYTES
    /\ \/ ~vis.getRes.hasBody
       \/ /\ vis.pc \in {"write", "done"}
          /\ vis.caught \notin {"read", "abort"}
          /\ vis.received = 0

\* the call returned a path it wrote itself, not the path of a local file
FreshPath == IsMaterialize /\ vis.outcome.kind = "path" /\ ~IsLocalRef

\* C20: a successful GET response without a body, or with a body of no
\* bytes, makes both functions return null and nothing is written; and
\* whenever materializeImageForVision returns a path it wrote, /tmp holds
\* exactly that file, with between 1 and MAX_VISION_IMAGE_BYTES bytes,
\* written once.
C20_NoEmptyFile ==
    /\ EmptyBody
       => /\ vis.pc = "done"
          /\ vis.outcome = Null
          /\ tmpFiles = {} /\ vis.writes = 0
    /\ FreshPath
       => /\ vis.writes = 1
          /\ \E f \in tmpFiles :
                /\ tmpFiles = {f}
                /\ f.path = vis.outcome.str
                /\ Len(f.bytes) \in 1..MAX_VISION_IMAGE_BYTES
    /\ \A f \in tmpFiles : Len(f.bytes) \in 1..MAX_VISION_IMAGE_BYTES
    /\ vis.outcome.kind = "payload"
       => Len(vis.outcome.str) > Len(P_base64)

\* a body whose stream delivered an empty chunk and ended: null
C20_Witness ==
    /\ EmptyBody
    /\ vis.getRes.hasBody
    /\ vis.chunks = <<<<>>>>
    /\ vis.pc = "done"
    /\ vis.outcome = Null

====
